---- MODULE Spec2Model ----
(***************************************************************************)
(* Model of the drive-image-searcher scan loop: main.rs reads the haystack *)
(* into a fixed-size chunk buffer (with a carry-forward copy between       *)
(* chunks) and process_data.rs::do_search looks for every needle in the    *)
(* buffer, writing context files and JSONL records.                        *)
(*                                                                         *)
(* Buffer sizes, context sizes and the byte alphabet are scaled down; all  *)
(* positions are 0-based as in the Rust code, sequences are 1-based, so    *)
(* buffer index i of the code is element i + 1 here.                       *)
(***************************************************************************)
EXTENDS Integers, Sequences, FiniteSets, TLC

\* ---------------------------------------------------------------- bounds
MaxByte == 1
MaxHaystackLen == 3
MaxNeedleLen == 2
MaxNeedles == 2
MaxCarry == 2
MaxChunk == 4
MaxContextWriteErrors == 1
MaxHexOffset == 272
MaxHexWidth == 9
MaxHexStrLen == 6
MaxHexBytes == 3
MaxSpaces == 2

\* needle.rs:10-11 (both 1024 in the program, scaled down here)
DEFAULT_BYTE_COUNT_BEFORE_MATCH == 2
DEFAULT_BYTE_COUNT_AFTER_MATCH == 1

Byte == 0..MaxByte

\* Marks a buffer byte that was not read from the haystack (initial vec![0; n]
\* contents or the zero fill after a short read).
NoOrigin == -1

NULL == "null"

VARIABLES
    haystack,                           \* the logical (uncompressed) byte stream behind input_reader
    reader_pos,                         \* bytes input_reader has returned so far
    needles,                            \* search_assignment.needles
    haystack_carry_forward_len_bytes,   \* main.rs:199
    haystack_chunk_buffer_size_bytes,   \* main.rs:202
    haystack_chunk_buffer,              \* ProcessDataState.haystack_chunk_buffer
    buffer_origin,                      \* history: logical offset each buffer byte was read from
    total_haystack_bytes_read,          \* ProcessDataState.total_haystack_bytes_read
    chunk_count,                        \* ProcessDataState.chunk_count
    partial_chunk_read_count,           \* ProcessDataState.partial_chunk_read_count
    needle_vals_found,                  \* ProcessDataState.needle_vals_found
    match_trace,                        \* history: per emitted event, where in which chunk it was seen
    needle_dirs,                        \* per-needle output directories that exist
    context_files,                      \* context files on disk
    all_output_record_jsonl,            \* 00_all_output_record.jsonl
    needle_jsonl,                       \* <needle dir>/001_<name>.jsonl
    bytes_read_this_chunk,              \* result of the last read
    haystack_chunk_start_global_offset, \* local of do_search
    needle_idx,                         \* position of do_search's for loop
    pc,                                 \* position of main: "read", "scan", "search", "done", "panicked"
    io_result,                          \* what the I/O calls of the last step returned
    log_errors,                         \* number of error! lines logged
    log_warnings,                       \* number of warn! lines logged
    clock,                              \* Utc::now(), in seconds
    run,                                \* which run of the program over this input this is
    prev_run_records,                   \* history: needle_vals_found at the end of the previous run
    prev_run_files,                     \* history: context files written by the previous run
    hex_offset,                         \* display_hex_offset: argument offset
    hex_width,                          \* display_hex_offset: argument width
    hex_out,                            \* display_hex_offset: returned string
    hex_str,                            \* parse_hex_string: argument hex_str
    parse_result,                       \* parse_hex_string: {} before the call, then {the returned Result}
    hex_bytes                           \* history: {the bytes hex_str was written out from}, {} for other text

vars == <<haystack, reader_pos, needles, haystack_carry_forward_len_bytes,
          haystack_chunk_buffer_size_bytes, haystack_chunk_buffer, buffer_origin,
          total_haystack_bytes_read, chunk_count, partial_chunk_read_count,
          needle_vals_found, match_trace, needle_dirs, context_files,
          all_output_record_jsonl, needle_jsonl, bytes_read_this_chunk,
          haystack_chunk_start_global_offset, needle_idx, pc, io_result, log_errors,
          log_warnings, clock, run, prev_run_records, prev_run_files,
          hex_offset, hex_width, hex_out, hex_str, parse_result, hex_bytes>>

\* ------------------------------------------------------------ helpers
Min(a, b) == IF a < b THEN a ELSE b
Max(a, b) == IF a > b THEN a ELSE b

SeqsUpTo(S, lo, hi) == UNION {[1..n -> S] : n \in lo..hi}

\* slice[a..b) of a Rust slice, 0-based half-open
Slice(s, a, b) == SubSeq(s, a + 1, b)

\* vec![x; n]
Filled(x, n) == [i \in 1..n |-> x]

\* slice.copy_within(src_start..src_end, dest)
CopyWithin(s, src_start, src_end, dest) ==
    [i \in 1..Len(s) |->
        IF (i - 1) >= dest /\ (i - 1) < dest + (src_end - src_start)
        THEN s[(i - 1) - dest + src_start + 1]
        ELSE s[i]]

\* slice[from..].fill(x)
FillFrom(s, from, x) == [i \in 1..Len(s) |-> IF (i - 1) >= from THEN x ELSE s[i]]

\* buf[at .. at + Len(data)] is overwritten by the data a read returns
ReadInto(s, at, data) ==
    [i \in 1..Len(s) |->
        IF (i - 1) >= at /\ (i - 1) < at + Len(data) THEN data[(i - 1) - at + 1] ELSE s[i]]

\* the positions p at which slice.windows(Len(val)) yields a window equal to val
MatchPositions(buf, val) ==
    {p \in 0..(Len(buf) - Len(val)) : Slice(buf, p, p + Len(val)) = val}

SetMin(S) == CHOOSE x \in S : \A y \in S : x <= y

\* slice.windows(n).position(|w| w == val): the first match only; -1 stands for None
Position(buf, val) ==
    IF MatchPositions(buf, val) = {} THEN -1 ELSE SetMin(MatchPositions(buf, val))

\* haystack_chunk_buffer.iter().all(|&val| val == first_val)
AllSame(buf) == \A i \in 1..Len(buf) : buf[i] = buf[1]

HexDigits == <<"0", "1", "2", "3", "4", "5", "6", "7", "8", "9",
               "A", "B", "C", "D", "E", "F">>

\* format!("{:X}", offset)
RECURSIVE UpperHex(_)
UpperHex(offset) ==
    IF offset < 16
    THEN <<HexDigits[offset + 1]>>
    ELSE UpperHex(offset \div 16) \o <<HexDigits[(offset % 16) + 1]>>

\* the fill put after the digits: format!("{:0<1$}", offset_str, width)
ZeroFillRight(offset_str, width) ==
    IF Len(offset_str) >= width
    THEN offset_str
    ELSE offset_str \o Filled("0", width - Len(offset_str))

\* format!("{:0>1$}", offset_str, width)
ZeroFill(offset_str, width) ==
    IF Len(offset_str) >= width
    THEN offset_str
    ELSE Filled("0", width - Len(offset_str)) \o offset_str

\* offset_str.separate_by_policy(hex_display_policy): "_" between groups of 4
\* digits, the groups counted from the right
RECURSIVE SeparateByPolicy(_)
SeparateByPolicy(offset_str) ==
    IF Len(offset_str) <= 4
    THEN offset_str
    ELSE SeparateByPolicy(SubSeq(offset_str, 1, Len(offset_str) - 4))
             \o <<"_">> \o SubSeq(offset_str, Len(offset_str) - 3, Len(offset_str))

\* display_hex.rs:5-19
DisplayHexOffset(offset, width) == SeparateByPolicy(ZeroFill(UpperHex(offset), width))

\* Result<Vec<u8>, ()>
Ok(bytes) == [ok |-> TRUE, bytes |-> bytes]
Err == [ok |-> FALSE, bytes |-> <<>>]

\* char::to_digit(16): the value of a hexadecimal digit of either case, -1 for None
HexCharValue(c) ==
    CASE c = "0" -> 0 [] c = "1" -> 1 [] c = "2" -> 2 [] c = "3" -> 3
      [] c = "4" -> 4 [] c = "5" -> 5 [] c = "6" -> 6 [] c = "7" -> 7
      [] c = "8" -> 8 [] c = "9" -> 9
      [] c \in {"a", "A"} -> 10 [] c \in {"b", "B"} -> 11 [] c \in {"c", "C"} -> 12
      [] c \in {"d", "D"} -> 13 [] c \in {"e", "E"} -> 14 [] c \in {"f", "F"} -> 15
      [] OTHER -> -1

\* hex_str.contains(' ')
Contains(str, c) == \E i \in 1..Len(str) : str[i] = c

\* str.split_whitespace(): the maximal runs of characters that are not whitespace
RECURSIVE SplitWhitespace(_)
SplitWhitespace(str) ==
    IF str = <<>>
    THEN <<>>
    ELSE IF str[1] = " "
    THEN SplitWhitespace(Tail(str))
    ELSE LET ends == {i \in 1..Len(str) : str[i] = " "}
             n == IF ends = {} THEN Len(str) + 1 ELSE SetMin(ends)
         IN <<SubSeq(str, 1, n - 1)>> \o SplitWhitespace(SubSeq(str, n, Len(str)))

\* the prefix left where it is
KeepPrefix0x(s) == s

\* s.trim_start_matches("0x"): the prefix is removed as often as it is there
RECURSIVE TrimStartMatches0x(_)
TrimStartMatches0x(s) ==
    IF Len(s) >= 2 /\ s[1] = "0" /\ s[2] = "x"
    THEN TrimStartMatches0x(SubSeq(s, 3, Len(s)))
    ELSE s

\* the number a string of hexadecimal digits stands for
RECURSIVE RadixValue16(_)
RadixValue16(digits) ==
    IF digits = <<>>
    THEN 0
    ELSE RadixValue16(SubSeq(digits, 1, Len(digits) - 1)) * 16
             + HexCharValue(digits[Len(digits)])

\* u8::from_str_radix(s, 16): an optional "+", then one or more digits, the
\* value at most u8::MAX; -1 stands for Err
U8FromStrRadix16(s) ==
    LET digits == IF s # <<>> /\ s[1] = "+" THEN Tail(s) ELSE s
    IN IF digits = <<>> \/ \E i \in 1..Len(digits) : HexCharValue(digits[i]) = -1
       THEN -1
       ELSE IF RadixValue16(digits) > 255 THEN -1 ELSE RadixValue16(digits)

\* hex::decode(s): an even number of hexadecimal digits, two to the byte
HexDecode(s) ==
    IF Len(s) % 2 # 0 \/ \E i \in 1..Len(s) : HexCharValue(s[i]) = -1
    THEN Err
    ELSE Ok([i \in 1..(Len(s) \div 2) |->
                HexCharValue(s[2 * i - 1]) * 16 + HexCharValue(s[2 * i])])

NotEmpty(s) == s # <<>>

\* parse_hex_string.rs:1-27
ParseHexString(str) ==
    IF Contains(str, " ") \/ Len(str) = 1
    THEN LET split == SplitWhitespace(str)
             hex_byte_strs == SelectSeq([i \in 1..Len(split) |-> TrimStartMatches0x(split[i])],
                                        NotEmpty)
             parsed == [i \in 1..Len(hex_byte_strs) |-> U8FromStrRadix16(hex_byte_strs[i])]
         IN IF \E i \in 1..Len(parsed) : parsed[i] = -1 THEN Err ELSE Ok(parsed)
    ELSE HexDecode(TrimStartMatches0x(str))

\* search_assignment.output_dir_path.join(format!("{}_{}", happiness_level, name))
NeedleDirPath(needle) == <<needle.happiness_level, needle.name>>

\* NeedleValFound::from_needle_val
FromNeedleVal(needle, match_start_global_offset) ==
    [name                      |-> needle.name,
     match_start_global_offset |-> match_start_global_offset,
     val                       |-> needle.val,
     happiness_level           |-> needle.happiness_level,
     found_timestamp_utc       |-> clock,
     haystack_written_to_file  |-> needle.write_to_file,
     haystack_file_path        |-> IF needle.write_to_file THEN "input_file_path" ELSE NULL,
     haystack_file_name        |-> IF needle.write_to_file THEN "input_file_name" ELSE NULL]

\* needle.rs:72  the number of characters of emojis
EmojiCount == 10

\* needle.rs:71-75  Needle::happiness_level_as_string: the text, or nothing where
\* emojis.chars().nth(happiness_level) is None and unwrap() panics
HappinessLevelAsString(needle) ==
    IF needle.happiness_level < EmojiCount
    THEN {<<needle.happiness_level, needle.happiness_level>>}
    ELSE {}

\* Needle::from_needle_val_config
FromNeedleValConfig(name, val, happiness_level, write_to_file) ==
    [name                    |-> name,
     val                     |-> val,
     happiness_level         |-> happiness_level,
     write_to_file           |-> write_to_file,
     byte_count_before_match |-> DEFAULT_BYTE_COUNT_BEFORE_MATCH,
     byte_count_after_match  |-> DEFAULT_BYTE_COUNT_AFTER_MATCH]

\* needle.rs:90-92  serde default of ConfigNeedle.write_to_file
default_write_to_file == TRUE

NeedleNames == <<"a", "b", "c">>

NeedleVals == SeqsUpTo(Byte, 1, MaxNeedleLen)

\* needle.rs:133-140  the needle sets the model loads: 1..MaxNeedles needles with
\* distinct names; the first needle's config sets write_to_file either way, the
\* others leave it to its default
NeedleSets ==
    {[i \in 1..Len(vs) |->
         FromNeedleValConfig(NeedleNames[i], vs[i], 5,
                             IF i = 1 THEN w ELSE default_write_to_file)] :
        vs \in SeqsUpTo(NeedleVals, 1, MaxNeedles), w \in BOOLEAN}

\* ---------------------------------------------------------------- Init
\* main.rs:181-217  the state when the scan loop is entered, for a haystack, a
\* needle set, a carry-forward length and a chunk buffer size out of the given sets
ScanInit(haystacks, needle_sets, carry_lens, chunk_sizes) ==
    /\ haystack \in haystacks
    /\ reader_pos = 0
    /\ needles \in needle_sets
    /\ haystack_carry_forward_len_bytes \in carry_lens
    /\ haystack_chunk_buffer_size_bytes
           \in {c \in chunk_sizes : c > haystack_carry_forward_len_bytes}
    /\ haystack_chunk_buffer = Filled(0, haystack_chunk_buffer_size_bytes)
    /\ buffer_origin = Filled(NoOrigin, haystack_chunk_buffer_size_bytes)
    /\ total_haystack_bytes_read = 0
    /\ chunk_count = 0
    /\ partial_chunk_read_count = 0
    /\ needle_vals_found = <<>>
    /\ match_trace = <<>>
    /\ needle_dirs = {}
    /\ context_files = {}
    /\ all_output_record_jsonl = <<>>
    /\ needle_jsonl = [d \in {NeedleDirPath(needles[i]) : i \in 1..Len(needles)} |-> <<>>]
    /\ bytes_read_this_chunk = 0
    /\ haystack_chunk_start_global_offset = 0
    /\ needle_idx = 0
    /\ pc = "read"
    /\ io_result = "ok"
    /\ log_errors = 0
    /\ log_warnings = 0
    /\ clock = 0
    /\ run = 1
    /\ prev_run_records = <<>>
    /\ prev_run_files = {}

\* display_hex_offset has not been called
HexIdle ==
    /\ hex_offset = 0
    /\ hex_width = 0
    /\ hex_out = <<>>

\* parse_hex_string has not been called
ParseIdle ==
    /\ hex_str = <<>>
    /\ parse_result = {}
    /\ hex_bytes = {}

Init ==
    /\ ScanInit(SeqsUpTo(Byte, 0, MaxHaystackLen), NeedleSets, 1..MaxCarry, 1..MaxChunk)
    /\ HexIdle
    /\ ParseIdle

\* ------------------------------------------------ main: the read step
\* main.rs:220-226  the carry-forward copy, skipped before the first read
CarryForward(buf) ==
    IF total_haystack_bytes_read > 0
    THEN CopyWithin(buf, haystack_carry_forward_len_bytes, haystack_chunk_buffer_size_bytes, 0)
    ELSE buf

\* the sizes input_reader.read may return for the slice buffer[K..]: 0 only at
\* end of stream, otherwise any non-empty prefix of what is left that fits
ReadSizes ==
    IF reader_pos = Len(haystack)
    THEN {0}
    ELSE 1..Min(haystack_chunk_buffer_size_bytes - haystack_carry_forward_len_bytes,
                Len(haystack) - reader_pos)

\* the offsets reader_pos .. reader_pos + n - 1 of the bytes a read of n returns
ReadOrigins(n) == [i \in 1..n |-> reader_pos + i - 1]

\* what neither the scan loop nor do_search touches
AuxUnchanged ==
    UNCHANGED <<clock, run, prev_run_records, prev_run_files, hex_offset, hex_width, hex_out,
                hex_str, parse_result, hex_bytes>>

ReadUnchanged ==
    /\ UNCHANGED <<haystack, needles, haystack_carry_forward_len_bytes,
                   haystack_chunk_buffer_size_bytes, total_haystack_bytes_read, chunk_count,
                   needle_vals_found, match_trace, needle_dirs, context_files,
                   all_output_record_jsonl, needle_jsonl,
                   haystack_chunk_start_global_offset, needle_idx, log_errors>>
    /\ AuxUnchanged

\* an empty read that is taken for a short one: no break, the buffer goes to the scan
ReadEndOfStreamNoBreak ==
    /\ pc = "read"
    /\ 0 \in ReadSizes
    /\ haystack_chunk_buffer' = CarryForward(haystack_chunk_buffer)
    /\ buffer_origin' = CarryForward(buffer_origin)
    /\ bytes_read_this_chunk' = 0
    /\ pc' = "scan"
    /\ io_result' = "ok"
    /\ UNCHANGED <<reader_pos, partial_chunk_read_count, log_warnings>>
    /\ ReadUnchanged

\* main.rs:219-264  the read returns 0 bytes: break
ReadEndOfStream ==
    /\ pc = "read"
    /\ 0 \in ReadSizes
    /\ haystack_chunk_buffer' = CarryForward(haystack_chunk_buffer)
    /\ buffer_origin' = CarryForward(buffer_origin)
    /\ bytes_read_this_chunk' = 0
    /\ pc' = "done"
    /\ io_result' = "ok"
    /\ UNCHANGED <<reader_pos, partial_chunk_read_count, log_warnings>>
    /\ ReadUnchanged

\* main.rs:219-233, 283  the read returns Err(e): panic!("Could not read")
ReadError ==
    /\ pc = "read"
    /\ haystack_chunk_buffer' = CarryForward(haystack_chunk_buffer)
    /\ buffer_origin' = CarryForward(buffer_origin)
    /\ pc' = "panicked"
    /\ io_result' = "read_err"
    /\ UNCHANGED <<reader_pos, bytes_read_this_chunk, partial_chunk_read_count, log_warnings>>
    /\ ReadUnchanged

\* a warning on every short read, the first one included
WarnsOnShortReadAlways(count) == count >= 0

\* main.rs:276-279  if process_data_state.partial_chunk_read_count > 0 { warn!(..) }
WarnsOnShortRead(count) == count > 0

\* main.rs:219-281  the read returns fewer bytes than the slice holds
ReadShortChunk ==
    /\ pc = "read"
    /\ \E n \in ReadSizes :
        /\ n > 0
        /\ n < haystack_chunk_buffer_size_bytes - haystack_carry_forward_len_bytes
        /\ LET end_of_data_idx == haystack_carry_forward_len_bytes + n
           IN /\ haystack_chunk_buffer' =
                    FillFrom(ReadInto(CarryForward(haystack_chunk_buffer),
                                      haystack_carry_forward_len_bytes,
                                      Slice(haystack, reader_pos, reader_pos + n)),
                             end_of_data_idx + 1, 0)
              /\ buffer_origin' =
                    FillFrom(ReadInto(CarryForward(buffer_origin),
                                      haystack_carry_forward_len_bytes, ReadOrigins(n)),
                             end_of_data_idx + 1, NoOrigin)
        /\ reader_pos' = reader_pos + n
        /\ bytes_read_this_chunk' = n
    /\ log_warnings' = IF WarnsOnShortRead(partial_chunk_read_count)
                       THEN log_warnings + 1 ELSE log_warnings
    /\ partial_chunk_read_count' = partial_chunk_read_count + 1
    /\ pc' = "scan"
    /\ io_result' = "ok"
    /\ ReadUnchanged

\* main.rs:219-284  the read fills the slice
ReadFullChunk ==
    /\ pc = "read"
    /\ \E n \in ReadSizes :
        /\ n = haystack_chunk_buffer_size_bytes - haystack_carry_forward_len_bytes
        /\ haystack_chunk_buffer' =
              ReadInto(CarryForward(haystack_chunk_buffer), haystack_carry_forward_len_bytes,
                       Slice(haystack, reader_pos, reader_pos + n))
        /\ buffer_origin' =
              ReadInto(CarryForward(buffer_origin), haystack_carry_forward_len_bytes,
                       ReadOrigins(n))
        /\ reader_pos' = reader_pos + n
        /\ bytes_read_this_chunk' = n
    /\ pc' = "scan"
    /\ io_result' = "ok"
    /\ UNCHANGED <<partial_chunk_read_count, log_warnings>>
    /\ ReadUnchanged

\* ------------------------------------------- main: skip or search a chunk
OutputUnchanged ==
    UNCHANGED <<needle_vals_found, match_trace, needle_dirs, context_files,
                all_output_record_jsonl, needle_jsonl, log_errors>>

InputUnchanged ==
    /\ UNCHANGED <<haystack, reader_pos, needles, haystack_carry_forward_len_bytes,
                   haystack_chunk_buffer_size_bytes, haystack_chunk_buffer, buffer_origin,
                   partial_chunk_read_count, bytes_read_this_chunk, log_warnings>>
    /\ AuxUnchanged

\* main.rs:286-298, 304-307  every byte of the buffer is the same: no search
SkipUniformChunk ==
    /\ pc = "scan"
    /\ AllSame(haystack_chunk_buffer)
    /\ total_haystack_bytes_read' = total_haystack_bytes_read + Len(haystack_chunk_buffer)
    /\ chunk_count' = chunk_count + 1
    /\ pc' = "read"
    /\ io_result' = "ok"
    /\ UNCHANGED <<haystack_chunk_start_global_offset, needle_idx>>
    /\ OutputUnchanged
    /\ InputUnchanged

\* main.rs:299-301, process_data.rs:51-56  enter do_search
BeginSearch ==
    /\ pc = "scan"
    /\ ~AllSame(haystack_chunk_buffer)
    /\ haystack_chunk_start_global_offset' = total_haystack_bytes_read
    /\ needle_idx' = 1
    /\ pc' = "search"
    /\ io_result' = "ok"
    /\ UNCHANGED <<total_haystack_bytes_read, chunk_count>>
    /\ OutputUnchanged
    /\ InputUnchanged

\* process_data.rs:111-120  the context file's name, from the two offsets
ChunkFileName(match_start_global_offset, offset_within_file) ==
    <<"found_g_0x">> \o DisplayHexOffset(match_start_global_offset, 20)
        \o <<"_startat_0x">> \o DisplayHexOffset(offset_within_file, 1) \o <<".bin">>

\* a context that starts at the match: no bytes before it
WriteStartPosAtMatch(needle, pos_in_chunk) == pos_in_chunk

\* process_data.rs:103-105
WriteStartPosInChunk(needle, pos_in_chunk) ==
    Max(pos_in_chunk - needle.byte_count_before_match, 0)

\* process_data.rs:106-109
WriteEndPosInChunk(needle, pos_in_chunk, buf) ==
    Min(pos_in_chunk + Len(needle.val) + needle.byte_count_after_match, Len(buf))

\* process_data.rs:56-62  one pass of the for loop, the needle is not in the buffer
SearchNeedleNotFound ==
    /\ pc = "search"
    /\ needle_idx <= Len(needles)
    /\ Len(needles[needle_idx].val) > 0
    /\ Position(haystack_chunk_buffer, needles[needle_idx].val) = -1
    /\ needle_idx' = needle_idx + 1
    /\ io_result' = "ok"
    /\ UNCHANGED <<pc, total_haystack_bytes_read, chunk_count,
                   haystack_chunk_start_global_offset>>
    /\ OutputUnchanged
    /\ InputUnchanged

\* a log that loses what it held: the file opened with truncate instead of append
AppendToJsonlFileTruncating(jsonl_file, record) == <<record>>

\* found_needle.rs:73-86  NeedleValFound::append_to_jsonl_file, when it succeeds:
\* the file is opened with create + append and one line is written
AppendToJsonlFile(jsonl_file, record) == Append(jsonl_file, record)

\* the I/O calls of one loop pass in their order, and the results that end the pass
IoCalls == <<"create_dir_err", "open_err", "write_err", "append_all_err",
             "append_needle_err", "ok">>

\* the I/O call at which io fails comes after the I/O call named by stage
After(io, stage) ==
    \E i, j \in 1..Len(IoCalls) : IoCalls[i] = stage /\ IoCalls[j] = io /\ i < j

\* a failed append that is logged like a failed write_all instead of unwrapped
PanicsExceptOnAppend(io) == io \in {"create_dir_err", "open_err"}

\* process_data.rs:91-93, 124-129, 157-164  the failures that go through expect()
\* and panic; a failed write_all does not (process_data.rs:131-137)
Panics(io) == io \notin {"ok", "write_err"}

\* a creation that is attempted whether or not the directory is there
CreateDirUnconditional(needle_dir_path, dirs) == TRUE

\* process_data.rs:91  !needle_dir_path.exists(): fs::create_dir is called, and
\* can fail, only for a directory that is not there
CreateDirCalled(needle_dir_path, dirs) == needle_dir_path \notin dirs

\* process_data.rs:56-167  one pass of the for loop, the needle is in the buffer;
\* io names the first I/O call that fails ("write_err" is logged and the pass goes
\* on, every other failure is an expect() that panics), "ok" when none does;
\* a failed write_all leaves the file incomplete: some proper prefix of the bytes.
\* log_panics says whether an info! of the pass panics while it formats
\* happiness_level_as_string(): the one after the directory is created
\* (process_data.rs:94-99) or the one after the context file is written (139-146)
SearchNeedlePass(io, log_panics) ==
    /\ pc = "search"
    /\ needle_idx <= Len(needles)
    /\ Len(needles[needle_idx].val) > 0
    /\ Position(haystack_chunk_buffer, needles[needle_idx].val) # -1
    /\ \E pos_in_chunk \in {Position(haystack_chunk_buffer, needles[needle_idx].val)} :
       LET needle == needles[needle_idx]
           match_start_global_offset == haystack_chunk_start_global_offset + pos_in_chunk
           needle_val_found == FromNeedleVal(needle, match_start_global_offset + pos_in_chunk)
           needle_dir_path == NeedleDirPath(needle)
           write_start_pos_in_chunk == WriteStartPosInChunk(needle, pos_in_chunk)
           write_end_pos_in_chunk ==
               WriteEndPosInChunk(needle, pos_in_chunk, haystack_chunk_buffer)
           chunk_file_name ==
               ChunkFileName(match_start_global_offset,
                             match_start_global_offset + write_start_pos_in_chunk)
           written == Slice(haystack_chunk_buffer, write_start_pos_in_chunk,
                            write_end_pos_in_chunk)
           info_created_panics ==
               /\ CreateDirCalled(needle_dir_path, needle_dirs)
               /\ After(io, "create_dir_err")
               /\ HappinessLevelAsString(needle) = {}
           opened ==
               /\ needle.write_to_file
               /\ io = "write_err" \/ After(io, "write_err")
               /\ ~info_created_panics
           info_wrote_panics == opened /\ HappinessLevelAsString(needle) = {}
           panics == Panics(io) \/ log_panics
       IN \E chunk_output_file_path \in {<<needle_dir_path, chunk_file_name>>} :
          /\ log_panics = (info_created_panics \/ info_wrote_panics)
          /\ info_created_panics => io = "ok"
          /\ info_wrote_panics => io \in {"write_err", "ok"}
          /\ io = "create_dir_err" => CreateDirCalled(needle_dir_path, needle_dirs)
          /\ io \in {"open_err", "write_err"} => needle.write_to_file
          /\ io = "write_err" => log_errors < MaxContextWriteErrors
          /\ needle_dirs' =
                IF After(io, "create_dir_err")
                THEN needle_dirs \cup {needle_dir_path} ELSE needle_dirs
          /\ context_files' =
                IF opened
                THEN {f \in context_files : f.path # chunk_output_file_path}
                         \cup {[path |-> chunk_output_file_path, bytes |-> written,
                                complete |-> io # "write_err"]}
                ELSE context_files
          /\ log_errors' = IF io = "write_err" THEN log_errors + 1 ELSE log_errors
          /\ all_output_record_jsonl' =
                IF (io = "write_err" \/ After(io, "append_all_err")) /\ ~log_panics
                THEN AppendToJsonlFile(all_output_record_jsonl, needle_val_found)
                ELSE all_output_record_jsonl
          /\ needle_jsonl' =
                IF ~panics
                THEN [needle_jsonl EXCEPT
                          ![needle_dir_path] = AppendToJsonlFile(@, needle_val_found)]
                ELSE needle_jsonl
          /\ needle_vals_found' =
                IF ~panics THEN Append(needle_vals_found, needle_val_found)
                ELSE needle_vals_found
          /\ match_trace' =
                IF ~panics
                THEN Append(match_trace,
                       [needle_idx    |-> needle_idx,
                        chunk_count   |-> chunk_count,
                        pos_in_chunk  |-> pos_in_chunk,
                        match_origin  |-> Slice(buffer_origin, pos_in_chunk,
                                                pos_in_chunk + Len(needle.val)),
                        written       |-> needle.write_to_file,
                        write_ok      |-> needle.write_to_file /\ io = "ok",
                        path          |-> chunk_output_file_path,
                        file_g        |-> match_start_global_offset,
                        bytes         |-> written,
                        before_bytes  |-> Slice(haystack_chunk_buffer,
                                                write_start_pos_in_chunk, pos_in_chunk),
                        before_origin |-> Slice(buffer_origin, write_start_pos_in_chunk,
                                                pos_in_chunk),
                        context_origin |-> Slice(buffer_origin, write_start_pos_in_chunk,
                                                 write_end_pos_in_chunk)])
                ELSE match_trace
          /\ needle_idx' = IF panics THEN needle_idx ELSE needle_idx + 1
          /\ pc' = IF panics THEN "panicked" ELSE pc
    /\ io_result' = IF log_panics THEN "log_panic" ELSE io
    /\ UNCHANGED <<total_haystack_bytes_read, chunk_count,
                   haystack_chunk_start_global_offset>>
    /\ InputUnchanged

\* process_data.rs:56-167  every I/O call of the pass succeeds
SearchNeedleFound == SearchNeedlePass("ok", FALSE)

\* process_data.rs:91-93  fs::create_dir fails: expect() panics
SearchNeedleCreateDirFails == SearchNeedlePass("create_dir_err", FALSE)

\* process_data.rs:124-129  opening the context file fails: expect() panics
SearchNeedleOpenFails == SearchNeedlePass("open_err", FALSE)

\* process_data.rs:131-137  write_all fails: error! and go on
SearchNeedleWriteFails == SearchNeedlePass("write_err", FALSE)

\* process_data.rs:157-159  the append to the scan-wide log fails: expect() panics
SearchNeedleAppendAllFails == SearchNeedlePass("append_all_err", FALSE)

\* process_data.rs:160-164  the append to the per-needle log fails: expect() panics
SearchNeedleAppendNeedleFails == SearchNeedlePass("append_needle_err", FALSE)

\* process_data.rs:168-173, main.rs:304-307  the loop is over: do_search updates
\* the counters and returns, then main updates them again
EndSearch ==
    /\ pc = "search"
    /\ needle_idx > Len(needles)
    /\ total_haystack_bytes_read' =
          (total_haystack_bytes_read + Len(haystack_chunk_buffer)) + Len(haystack_chunk_buffer)
    /\ chunk_count' = (chunk_count + 1) + 1
    /\ pc' = "read"
    /\ io_result' = "ok"
    /\ UNCHANGED <<haystack_chunk_start_global_offset, needle_idx>>
    /\ OutputUnchanged
    /\ InputUnchanged

Next ==
    \/ ReadEndOfStream
    \/ ReadError
    \/ ReadShortChunk
    \/ ReadFullChunk
    \/ SkipUniformChunk
    \/ BeginSearch
    \/ SearchNeedleNotFound
    \/ SearchNeedleFound
    \/ SearchNeedleCreateDirFails
    \/ SearchNeedleOpenFails
    \/ SearchNeedleWriteFails
    \/ SearchNeedleAppendAllFails
    \/ SearchNeedleAppendNeedleFails
    \/ EndSearch

Spec == Init /\ [][Next]_vars

\* needle.rs:29-56, 133-140, parse_hex_string.rs:81-85  the needle sets a
\* configuration can load: a hex val "" parses to Ok(vec![]), an ascii val "" has
\* no bytes, and from_needle_val_config takes a val of any length as it is
NeedleSetsAnyPattern ==
    {[i \in 1..Len(vs) |->
         FromNeedleValConfig(NeedleNames[i], vs[i], 5,
                             IF i = 1 THEN w ELSE default_write_to_file)] :
        vs \in SeqsUpTo(SeqsUpTo(Byte, 0, MaxNeedleLen), 1, MaxNeedles),
        w \in BOOLEAN}

\* main.rs:131-217  the state when the scan loop is entered with any of these needle sets
InitAnyPattern ==
    /\ ScanInit(SeqsUpTo(Byte, 0, MaxHaystackLen), NeedleSetsAnyPattern,
                1..MaxCarry, 1..MaxChunk)
    /\ HexIdle
    /\ ParseIdle

\* process_data.rs:56-62  one pass of the for loop for a needle of length 0:
\* slice.windows(0) panics
SearchNeedleZeroLen ==
    /\ pc = "search"
    /\ needle_idx <= Len(needles)
    /\ Len(needles[needle_idx].val) = 0
    /\ pc' = "panicked"
    /\ io_result' = "ok"
    /\ UNCHANGED <<needle_idx, total_haystack_bytes_read, chunk_count,
                   haystack_chunk_start_global_offset>>
    /\ OutputUnchanged
    /\ InputUnchanged

NextAnyPattern ==
    \/ Next
    \/ SearchNeedleZeroLen

SpecAnyPattern == InitAnyPattern /\ [][NextAnyPattern]_vars

\* the offsets display_hex_offset is called with: every small one, and larger
\* ones around the lengths at which a digit or a group is added
HexOffsets ==
    0..MaxHexOffset \cup {4095, 4096, 65535, 65536, 1048575, 1048576, 16777216,
                          268435455, 268435456, 2147483647}

\* the widths display_hex_offset is called with; process_data.rs:114-119 uses 20 and 1
HexWidths == 0..MaxHexWidth \cup {20}

\* display_hex.rs:5-19  display_hex_offset is about to be called with an offset
\* and a width
InitHex ==
    /\ ScanInit({<<>>}, {<<FromNeedleValConfig(NeedleNames[1], <<0>>, 5,
                                              default_write_to_file)>>}, {1}, {2})
    /\ hex_offset \in HexOffsets
    /\ hex_width \in HexWidths
    /\ hex_out = <<>>
    /\ ParseIdle

\* display_hex.rs:5-19  the call of display_hex_offset(offset, width) returns
DisplayHex ==
    /\ hex_out = <<>>
    /\ hex_out' = DisplayHexOffset(hex_offset, hex_width)
    /\ UNCHANGED <<hex_offset, hex_width>>
    /\ UNCHANGED <<haystack, reader_pos, needles, haystack_carry_forward_len_bytes,
                   haystack_chunk_buffer_size_bytes, haystack_chunk_buffer, buffer_origin,
                   total_haystack_bytes_read, chunk_count, partial_chunk_read_count,
                   needle_vals_found, match_trace, needle_dirs, context_files,
                   all_output_record_jsonl, needle_jsonl, bytes_read_this_chunk,
                   haystack_chunk_start_global_offset, needle_idx, pc, io_result,
                   log_errors, log_warnings, clock, run, prev_run_records,
                   prev_run_files, hex_str, parse_result, hex_bytes>>

SpecHex == InitHex /\ [][DisplayHex]_vars

\* the context files the events of this run wrote: name within the output
\* directory, and contents
FilesWritten ==
    {[path |-> match_trace[k].path, bytes |-> match_trace[k].bytes] :
        k \in {j \in 1..Len(match_trace) : match_trace[j].written}}

\* main.rs:114-217  the program is started again on the same input file with the
\* same needle configuration, in the same second or later. Its output directory
\* is named after the second it starts in (main.rs:114-118): a later start
\* makes a new, empty one, a start in the same second reuses the directory and
\* its files (main.rs:145-152). Utc::now() stays at the start time during a run.
Rerun ==
    /\ pc = "done"
    /\ run = 1
    /\ run' = 2
    /\ prev_run_records' = needle_vals_found
    /\ prev_run_files' = FilesWritten
    /\ \E later \in BOOLEAN :
          /\ clock' = IF later THEN clock + 1 ELSE clock
          /\ needle_dirs' = IF later THEN {} ELSE needle_dirs
          /\ context_files' = IF later THEN {} ELSE context_files
          /\ all_output_record_jsonl' = IF later THEN <<>> ELSE all_output_record_jsonl
          /\ needle_jsonl' = IF later THEN [dir \in DOMAIN needle_jsonl |-> <<>>]
                             ELSE needle_jsonl
    /\ reader_pos' = 0
    /\ haystack_chunk_buffer' = Filled(0, haystack_chunk_buffer_size_bytes)
    /\ buffer_origin' = Filled(NoOrigin, haystack_chunk_buffer_size_bytes)
    /\ total_haystack_bytes_read' = 0
    /\ chunk_count' = 0
    /\ partial_chunk_read_count' = 0
    /\ needle_vals_found' = <<>>
    /\ match_trace' = <<>>
    /\ bytes_read_this_chunk' = 0
    /\ haystack_chunk_start_global_offset' = 0
    /\ needle_idx' = 0
    /\ pc' = "read"
    /\ io_result' = "ok"
    /\ log_errors' = 0
    /\ log_warnings' = 0
    /\ UNCHANGED <<haystack, needles, haystack_carry_forward_len_bytes,
                   haystack_chunk_buffer_size_bytes, hex_offset, hex_width, hex_out,
                   hex_str, parse_result, hex_bytes>>

\* the steps of scans in which no I/O call fails, and the restart
NextRerun ==
    \/ ReadEndOfStream
    \/ ReadShortChunk
    \/ ReadFullChunk
    \/ SkipUniformChunk
    \/ BeginSearch
    \/ SearchNeedleNotFound
    \/ SearchNeedleFound
    \/ EndSearch
    \/ Rerun

\* the characters of the texts parse_hex_string is called with: digits, a
\* letter that is a digit, one that is none, the x of a prefix, space and sign
HexStrAlphabet == {"0", "1", "f", "g", "x", " ", "+"}

\* the byte values of the patterns that are written out as hex text
HexByteValues == {0, 1, 15, 16, 114, 255}

LowerHexDigits == <<"0", "1", "2", "3", "4", "5", "6", "7", "8", "9",
                    "a", "b", "c", "d", "e", "f">>

\* a byte as two hexadecimal digits, with the prefix in front of them
TwoDigits(prefix, b) ==
    prefix \o <<LowerHexDigits[(b \div 16) + 1], LowerHexDigits[(b % 16) + 1]>>

\* the bytes as two digits each, with the prefix in front and spaces between
RECURSIVE HexText(_, _, _)
HexText(bytes, prefix, spaces) ==
    IF bytes = <<>>
    THEN <<>>
    ELSE IF Len(bytes) = 1
    THEN TwoDigits(prefix, bytes[1])
    ELSE TwoDigits(prefix, bytes[1]) \o Filled(" ", spaces)
             \o HexText(Tail(bytes), prefix, spaces)

\* parse_hex_string.rs:33-61  the forms a needle configuration writes a byte
\* pattern in: two digits a byte run together, or separated by one or more
\* spaces, or that with 0x before every byte; one digit for one small byte
HexForms(bytes) ==
    {HexText(bytes, <<>>, 0)}
        \cup {HexText(bytes, <<>>, n) : n \in 1..MaxSpaces}
        \cup {HexText(bytes, <<"0", "x">>, n) : n \in 1..MaxSpaces}
        \cup (IF Len(bytes) = 1 /\ bytes[1] < 16
              THEN {<<LowerHexDigits[bytes[1] + 1]>>} ELSE {})

\* parse_hex_string.rs:1  parse_hex_string is about to be called, with a byte
\* pattern in one of its forms or with any short text
InitParseHex ==
    /\ ScanInit({<<>>}, {<<FromNeedleValConfig(NeedleNames[1], <<0>>, 5,
                                              default_write_to_file)>>}, {1}, {2})
    /\ HexIdle
    /\ \/ \E bytes \in SeqsUpTo(HexByteValues, 0, MaxHexBytes) :
             /\ hex_bytes = {bytes}
             /\ hex_str \in HexForms(bytes)
       \/ /\ hex_bytes = {}
          /\ hex_str \in SeqsUpTo(HexStrAlphabet, 0, MaxHexStrLen)
    /\ parse_result = {}

\* parse_hex_string.rs:1-27  the call of parse_hex_string(hex_str) returns
ParseHex ==
    /\ parse_result = {}
    /\ parse_result' = {ParseHexString(hex_str)}
    /\ UNCHANGED <<hex_str, hex_bytes, hex_offset, hex_width, hex_out>>
    /\ UNCHANGED <<haystack, reader_pos, needles, haystack_carry_forward_len_bytes,
                   haystack_chunk_buffer_size_bytes, haystack_chunk_buffer, buffer_origin,
                   total_haystack_bytes_read, chunk_count, partial_chunk_read_count,
                   needle_vals_found, match_trace, needle_dirs, context_files,
                   all_output_record_jsonl, needle_jsonl, bytes_read_this_chunk,
                   haystack_chunk_start_global_offset, needle_idx, pc, io_result,
                   log_errors, log_warnings, clock, run, prev_run_records,
                   prev_run_files>>

SpecParseHex == InitParseHex /\ [][ParseHex]_vars

\* main.rs:181-217  the scans with one needle
InitOneNeedle ==
    /\ ScanInit(SeqsUpTo(Byte, 0, MaxHaystackLen), {ns \in NeedleSets : Len(ns) = 1},
                1..MaxCarry, 1..MaxChunk)
    /\ HexIdle
    /\ ParseIdle

\* main.rs:114-308  two runs of the program, one after the other
SpecRerun == InitOneNeedle /\ [][NextRerun]_vars

\* needle.rs:19, 84  happiness levels a configuration can give: the last one
\* that has an emoji, and the first one that has none
HappinessLevels == {EmojiCount - 1, EmojiCount}

\* needle.rs:29-56, 133-140  needle sets of one needle; from_needle_val_config
\* takes over any happiness_level that fits a u8
NeedleSetsAnyLevel ==
    {<<FromNeedleValConfig(NeedleNames[1], v, h, w)>> :
        v \in NeedleVals, h \in HappinessLevels, w \in BOOLEAN}

InitAnyLevel ==
    /\ ScanInit(SeqsUpTo(Byte, 0, MaxHaystackLen), NeedleSetsAnyLevel,
                1..MaxCarry, 1..MaxChunk)
    /\ HexIdle
    /\ ParseIdle

\* process_data.rs:94-99, 139-146  info! formats happiness_level_as_string(),
\* which panics: after the directory is created, or after the context file is
\* written (whether or not write_all failed)
SearchNeedleLogPanics == \E io \in {"ok", "write_err"} : SearchNeedlePass(io, TRUE)

NextAnyLevel ==
    \/ Next
    \/ SearchNeedleLogPanics

\* main.rs:218-308  scans with a needle of any happiness level
SpecAnyLevel == InitAnyLevel /\ [][NextAnyLevel]_vars

\* main.rs:218-308  the loop runs on: the process is not stopped from outside
FairSpec == InitOneNeedle /\ [][Next]_vars /\ WF_vars(Next)

TypeOK ==
    /\ pc \in {"read", "scan", "search", "done", "panicked"}
    /\ Len(haystack_chunk_buffer) = haystack_chunk_buffer_size_bytes
    /\ Len(buffer_origin) = haystack_chunk_buffer_size_bytes
    /\ reader_pos \in 0..Len(haystack)
    /\ Len(match_trace) = Len(needle_vals_found)

\* ------------------------------------------------- reference notions
\* the start offsets at which needle i's pattern occurs in the logical haystack
Occurrences(i) == MatchPositions(haystack, needles[i].val)

NeedleIds == 1..Len(needles)

Events == 1..Len(needle_vals_found)

\* the events emitted for needle i with recorded offset o
EventsAt(i, o) ==
    {k \in Events : /\ needle_vals_found[k].name = needles[i].name
                    /\ needle_vals_found[k].match_start_global_offset = o}

\* the logical offset at which a window of buffer bytes starts, when the window
\* is a run of consecutive haystack bytes; NoOrigin when it is not
ObservedOffset(origin) ==
    IF /\ Len(origin) > 0
       /\ origin[1] # NoOrigin
       /\ \A j \in 1..Len(origin) : origin[j] = origin[1] + (j - 1)
    THEN origin[1]
    ELSE NoOrigin

\* every needle is short enough for the carry-forward to cover a boundary
CarryCoversNeedles ==
    \A i \in NeedleIds : Len(needles[i].val) <= haystack_carry_forward_len_bytes + 1

\* ------------------------------------------------------------- claims
\* C1: boundary equivalence. When every pattern is at most K+1 bytes long, a
\* finished chunked scan has emitted exactly the (needle, offset) pairs that
\* one matching pass over the whole haystack finds.
C1_BoundaryEquivalence ==
    (pc = "done" /\ CarryCoversNeedles) =>
        {<<needle_vals_found[k].name, needle_vals_found[k].match_start_global_offset>> :
            k \in Events}
        = {<<needles[i].name, p>> : <<i, p>> \in
              {t \in NeedleIds \X (0..Len(haystack)) : t[2] \in Occurrences(t[1])}}

\* C2: exactly once. After a finished scan every occurrence of every needle in
\* the logical haystack has exactly one event carrying its true start offset.
C2_ExactlyOnce ==
    pc = "done" =>
        \A i \in NeedleIds : \A p \in Occurrences(i) : Cardinality(EventsAt(i, p)) = 1

\* C3: global offset correctness. Every emitted record's offset o is such that
\* the haystack bytes [o, o + pattern length) are the needle's pattern.
C3_GlobalOffsetCorrect ==
    \A k \in Events :
        LET o == needle_vals_found[k].match_start_global_offset
            v == needle_vals_found[k].val
        IN /\ o + Len(v) <= Len(haystack)
           /\ Slice(haystack, o, o + Len(v)) = v

\* C4: matching-pass completeness. When do_search has gone through all needles
\* for a chunk, every (needle, position) at which the pattern occurs in the
\* buffer has been reported for that chunk, later and overlapping occurrences
\* included.
C4_MatchingPassComplete ==
    (pc = "search" /\ needle_idx > Len(needles)) =>
        \A i \in NeedleIds : \A p \in MatchPositions(haystack_chunk_buffer, needles[i].val) :
            \E k \in Events : /\ match_trace[k].chunk_count = chunk_count
                              /\ match_trace[k].needle_idx = i
                              /\ match_trace[k].pos_in_chunk = p

\* C5: dedup by absolute offset. No two events of one needle carry the same
\* match_start_global_offset, and no two events of one needle are observations
\* of the same absolute offset of the haystack (the second one is discarded).
C5_DedupByAbsoluteOffset ==
    \A j, k \in Events :
        (j < k /\ match_trace[j].needle_idx = match_trace[k].needle_idx) =>
            /\ needle_vals_found[j].match_start_global_offset
                   # needle_vals_found[k].match_start_global_offset
            /\ ~ /\ ObservedOffset(match_trace[j].match_origin) # NoOrigin
                 /\ ObservedOffset(match_trace[j].match_origin)
                        = ObservedOffset(match_trace[k].match_origin)

\* C6: carry-forward content. For every chunk after the first, the read step
\* leaves the last K bytes of the previous chunk buffer in the first K bytes
\* of the buffer and puts the newly read bytes at index K.
C6_CarryForwardContent ==
    [][(pc = "read" /\ pc' = "scan" /\ total_haystack_bytes_read > 0) =>
          /\ Slice(haystack_chunk_buffer', 0, haystack_carry_forward_len_bytes)
                = Slice(haystack_chunk_buffer,
                        haystack_chunk_buffer_size_bytes - haystack_carry_forward_len_bytes,
                        haystack_chunk_buffer_size_bytes)
          /\ Slice(haystack_chunk_buffer', haystack_carry_forward_len_bytes,
                   haystack_carry_forward_len_bytes + bytes_read_this_chunk')
                = Slice(haystack, reader_pos, reader_pos')]_vars

\* C7: the first chunk has no carry-forward. In the first chunk handed to the
\* matching pass, buffer index 0 holds the haystack byte of logical offset 0 and
\* every byte read sits at the index equal to its logical offset.
C7_FirstChunkNoCarry ==
    (pc = "scan" /\ chunk_count = 0) =>
        /\ buffer_origin[1] = 0
        /\ \A p \in 0..(bytes_read_this_chunk - 1) : buffer_origin[p + 1] = p

\* C8: short-read zero fill. After a read of n bytes, 0 < n < C - K, every
\* buffer byte at index >= K + n is zero when the chunk reaches the matching pass.
C8_ShortReadZeroFill ==
    (/\ pc = "scan"
     /\ bytes_read_this_chunk > 0
     /\ bytes_read_this_chunk
            < haystack_chunk_buffer_size_bytes - haystack_carry_forward_len_bytes) =>
        \A idx \in (haystack_carry_forward_len_bytes + bytes_read_this_chunk)
                       ..(haystack_chunk_buffer_size_bytes - 1) :
            haystack_chunk_buffer[idx + 1] = 0

\* the events the step appends for needle i
NewEventsOf(i) ==
    {k \in (Len(needle_vals_found) + 1)..Len(needle_vals_found') :
        needle_vals_found'[k].name = needles[i].name}

\* C9: uniform-chunk skip safety. When the whole chunk buffer is one repeated
\* byte b, the step that disposes of the chunk emits an event for a needle made
\* only of b at every offset of the chunk where it occurs, and emits none for a
\* needle longer than one byte that contains another byte.
C9_UniformChunkSkipSafety ==
    [][(pc = "scan" /\ pc' = "read" /\ AllSame(haystack_chunk_buffer)) =>
          \A i \in NeedleIds :
              LET val == needles[i].val
                  uniform == \A j \in 1..Len(val) : val[j] = haystack_chunk_buffer[1]
              IN /\ uniform =>
                      Cardinality(NewEventsOf(i))
                          = Cardinality(MatchPositions(haystack_chunk_buffer, val))
                 /\ (Len(val) > 1 /\ ~uniform) => NewEventsOf(i) = {}]_vars

\* C10: context clipping at the start of the haystack. For a persisted match
\* at true global offset g with before-context B > g, the bytes written before
\* the match start are exactly the g haystack bytes [0, g).
C10_ContextClippedAtStart ==
    \A k \in Events :
        LET g == ObservedOffset(match_trace[k].match_origin)
        IN (/\ match_trace[k].written
            /\ g # NoOrigin
            /\ needles[match_trace[k].needle_idx].byte_count_before_match > g) =>
               /\ Len(match_trace[k].before_bytes) = g
               /\ match_trace[k].before_bytes = Slice(haystack, 0, g)
               /\ match_trace[k].before_origin = [j \in 1..g |-> j - 1]

\* C11: context file name. For every persisted match the file is named
\* found_g_0x<hex(g, 20)>_startat_0x<hex(s, 1)>.bin, g the match's start offset
\* as do_search computes it and s = g - (number of before-context bytes
\* written), so that s <= g.
C11_ContextFileName ==
    \A k \in Events :
        match_trace[k].written =>
            LET g == match_trace[k].file_g
                s == g - Len(match_trace[k].before_bytes)
            IN /\ s >= 0
               /\ s <= g
               /\ match_trace[k].path[2]
                      = <<"found_g_0x">> \o DisplayHexOffset(g, 20)
                            \o <<"_startat_0x">> \o DisplayHexOffset(s, 1) \o <<".bin">>

\* C14: logical byte count. Whenever a loop iteration is over (main is back at
\* the read, or has left the loop), total_haystack_bytes_read is the number of
\* bytes all reads so far returned.
C14_LogicalByteCount ==
    pc \in {"read", "done"} => total_haystack_bytes_read = reader_pos

\* s is t with zero or more records appended
IsPrefix(s, t) == Len(s) <= Len(t) /\ SubSeq(t, 1, Len(s)) = s

\* the records of log that belong to the needle whose output directory is dir
RecordsOf(log, dir) ==
    LET OfNeedle(r) == NeedleDirPath(r) = dir
    IN SelectSeq(log, OfNeedle)

\* C12: two append-only logs. Whenever do_search is not under way and nothing
\* has failed fatally, the scan-wide log is needle_vals_found, record for record
\* in emission order, and every per-needle log is the subsequence of the
\* scan-wide log made of that needle's records; and no step removes or changes
\* a record a log already holds.
C12_TwoAppendOnlyLogs ==
    /\ [](pc \in {"read", "scan", "done"} =>
            /\ all_output_record_jsonl = needle_vals_found
            /\ \A dir \in DOMAIN needle_jsonl :
                   needle_jsonl[dir] = RecordsOf(all_output_record_jsonl, dir))
    /\ [][/\ IsPrefix(all_output_record_jsonl, all_output_record_jsonl')
          /\ \A dir \in DOMAIN needle_jsonl :
                 IsPrefix(needle_jsonl[dir], needle_jsonl'[dir])]_vars

\* a finished scan that logged records of two needles, one of them twice
C12_Witness ==
    /\ pc = "done"
    /\ Len(all_output_record_jsonl) >= 3
    /\ Cardinality(DOMAIN needle_jsonl) = 2
    /\ \A dir \in DOMAIN needle_jsonl : needle_jsonl[dir] # <<>>

\* the step is a read that returned no bytes and no error
EmptyRead == pc = "read" /\ reader_pos' = reader_pos /\ io_result' # "read_err"

\* C13: end of stream. The loop is left exactly at the first read that returns
\* 0 bytes: such a read ends the scan at once, with no matching pass, no record
\* and no counter advanced; nothing but such a read ends it; nothing happens
\* once it has ended; and a scan that does not abort on a fatal error comes to
\* its end.
C13_EndOfStream ==
    /\ [][/\ EmptyRead =>
               /\ pc' = "done"
               /\ UNCHANGED <<total_haystack_bytes_read, chunk_count,
                              partial_chunk_read_count, needle_vals_found,
                              all_output_record_jsonl, needle_jsonl, context_files,
                              needle_idx>>
          /\ pc' = "done" => EmptyRead
          /\ pc # "done"]_vars
    /\ <>(pc = "done" \/ pc = "panicked")

\* a scan that has read the whole haystack in two or more chunks and has ended
C13_Witness ==
    /\ pc = "done"
    /\ chunk_count >= 2
    /\ reader_pos = Len(haystack)
    /\ bytes_read_this_chunk = 0
    /\ needle_vals_found # <<>>

\* C15: fatal errors. A step in which the chunk read returns an error, or in
\* which the append of the record to the scan-wide or to the per-needle log
\* fails, aborts the scan and emits no event; the records the logs held are
\* still there, unchanged; and an aborted scan takes no further step.
C15_FatalErrors ==
    [][/\ io_result' \in {"read_err", "append_all_err", "append_needle_err"} =>
           /\ pc' = "panicked"
           /\ needle_vals_found' = needle_vals_found
           /\ IsPrefix(all_output_record_jsonl, all_output_record_jsonl')
           /\ \A dir \in DOMAIN needle_jsonl :
                  IsPrefix(needle_jsonl[dir], needle_jsonl'[dir])
       /\ pc # "panicked"]_vars

\* the append to the per-needle log has failed after earlier records were logged
C15_Witness ==
    /\ pc = "panicked"
    /\ io_result = "append_needle_err"
    /\ needle_vals_found # <<>>
    /\ Len(all_output_record_jsonl) = Len(needle_vals_found) + 1

\* C16: recoverable context-file failure. A step in which creating/opening the
\* context file of a match fails, or writing it fails, does not abort the scan:
\* an error is logged, the record of the match is appended to both logs and
\* the loop goes on to the next needle.
C16_ContextFileFailureRecoverable ==
    [][io_result' \in {"open_err", "write_err"} =>
           /\ pc' = "search"
           /\ needle_idx' = needle_idx + 1
           /\ log_errors' = log_errors + 1
           /\ Len(all_output_record_jsonl') = Len(all_output_record_jsonl) + 1
           /\ \E dir \in DOMAIN needle_jsonl :
                  Len(needle_jsonl'[dir]) = Len(needle_jsonl[dir]) + 1]_vars

\* the step is a read that returned some bytes, fewer than the slice holds
ShortRead ==
    /\ pc = "read"
    /\ reader_pos' > reader_pos
    /\ reader_pos' - reader_pos
           < haystack_chunk_buffer_size_bytes - haystack_carry_forward_len_bytes

\* C17: repeated short reads. Every non-empty short read, the second and later
\* ones included, hands its chunk on to the scan and adds one to
\* partial_chunk_read_count; it raises a warning exactly when an earlier short
\* read has been counted; no other step counts or warns, so the count is the
\* number of short reads and the warnings are one fewer; and after two or more
\* short reads the empty read still ends the scan.
C17_RepeatedShortReads ==
    /\ [][/\ ShortRead =>
               /\ pc' = "scan"
               /\ partial_chunk_read_count' = partial_chunk_read_count + 1
               /\ log_warnings' =
                      IF partial_chunk_read_count >= 1 THEN log_warnings + 1
                      ELSE log_warnings
          /\ ~ShortRead => UNCHANGED <<partial_chunk_read_count, log_warnings>>
          /\ (EmptyRead /\ partial_chunk_read_count >= 2) => pc' = "done"]_vars
    /\ [](log_warnings = Max(partial_chunk_read_count - 1, 0))

\* a scan that ended after three short reads and two warnings
C17_Witness ==
    /\ pc = "done"
    /\ partial_chunk_read_count = 3
    /\ log_warnings = 2
    /\ chunk_count >= 3

\* C18: zero-length pattern rejection. A needle set with a zero-length pattern
\* is never constructed: no scan is under way, and do_search never runs, with a
\* needle whose pattern has length 0.
C18_ZeroLengthPatternRejected ==
    pc \in {"scan", "search"} => \A i \in NeedleIds : Len(needles[i].val) > 0

\* the value of an upper-case hexadecimal digit
HexValue ==
    [c \in {"0", "1", "2", "3", "4", "5", "6", "7", "8", "9", "A", "B", "C", "D", "E", "F"} |->
        CASE c = "0" -> 0 [] c = "1" -> 1 [] c = "2" -> 2 [] c = "3" -> 3
          [] c = "4" -> 4 [] c = "5" -> 5 [] c = "6" -> 6 [] c = "7" -> 7
          [] c = "8" -> 8 [] c = "9" -> 9 [] c = "A" -> 10 [] c = "B" -> 11
          [] c = "C" -> 12 [] c = "D" -> 13 [] c = "E" -> 14 [] c = "F" -> 15]

\* a rendering without its separators
NotSeparator(c) == c # "_"
WithoutSeparators(str) == SelectSeq(str, NotSeparator)

\* the number a string of hexadecimal digits denotes
RECURSIVE ParseHexDigits(_)
ParseHexDigits(digits) ==
    IF digits = <<>>
    THEN 0
    ELSE ParseHexDigits(SubSeq(digits, 1, Len(digits) - 1)) * 16
             + HexValue[digits[Len(digits)]]

\* the number of hexadecimal digits of v, at least one
RECURSIVE HexDigitCount(_)
HexDigitCount(v) == IF v < 16 THEN 1 ELSE 1 + HexDigitCount(v \div 16)

\* C19: hex offset rendering. For every offset v and width w the rendering
\* display_hex_offset(v, w), separators removed, is a string of upper-case
\* hexadecimal digits of length max(w, number of hex digits of v) that denotes
\* v (so parsing it back recovers v, and the padding is leading zeros); the
\* separators stand exactly between groups of 4 digits counted from the right;
\* (15, 8) gives 0000_000F and (16, 1) gives 10.
C19_HexOffsetRendering ==
    hex_out # <<>> =>
        LET digits == WithoutSeparators(hex_out)
            n == Len(digits)
        IN /\ n = Max(hex_width, HexDigitCount(hex_offset))
           /\ \A i \in 1..n : digits[i] \in DOMAIN HexValue
           /\ ParseHexDigits(digits) = hex_offset
           /\ Len(hex_out) = n + ((n - 1) \div 4)
           /\ \A i \in 1..Len(hex_out) :
                  (hex_out[i] = "_") <=> ((Len(hex_out) - i + 1) % 5 = 0)
           /\ (hex_offset = 15 /\ hex_width = 8) =>
                  hex_out = <<"0", "0", "0", "0", "_", "0", "0", "0", "F">>
           /\ (hex_offset = 16 /\ hex_width = 1) => hex_out = <<"1", "0">>

\* a rendering with zero fill and two separators
C19_Witness ==
    /\ hex_offset = 255
    /\ hex_width = 9
    /\ hex_out = <<"0", "_", "0", "0", "0", "0", "_", "0", "0", "F", "F">>

\* C20: idempotent re-run. When a second scan of the same haystack with the
\* same needle set, chunk size and carry-forward length has finished, its
\* sequence of records equals the first scan's, field for field, and it wrote
\* context files of the same names with the same contents.
C20_IdempotentRerun ==
    (run = 2 /\ pc = "done") =>
        /\ needle_vals_found = prev_run_records
        /\ FilesWritten = prev_run_files

\* C21: offsets bounded by the haystack. Every emitted record's offset plus
\* its pattern length is at most the logical length of the haystack, and the
\* bytes its match was seen in were all read from the haystack: none is a
\* zero-fill byte or a byte of the buffer's initial contents.
C21_OffsetsBoundedByHaystack ==
    \A k \in Events :
        /\ needle_vals_found[k].match_start_global_offset + Len(needle_vals_found[k].val)
               <= Len(haystack)
        /\ \A j \in 1..Len(match_trace[k].match_origin) :
               match_trace[k].match_origin[j] # NoOrigin

\* C22: forward context is clipped, not padded. Every byte of every context
\* file was read from the haystack: the file holds no zero-fill byte and no
\* byte of the buffer's initial contents, so a context that would run past
\* the last haystack byte ends there.
C22_ForwardContextClipped ==
    \A k \in Events :
        match_trace[k].written =>
            \A j \in 1..Len(match_trace[k].context_origin) :
                match_trace[k].context_origin[j] # NoOrigin

\* C23: hex pattern formats are equivalent. For every byte sequence,
\* parse_hex_string returns Ok of that sequence for its concatenated two-digit
\* form, for its form with one or more spaces between the bytes and for that
\* form with 0x before every byte; a single hex digit parses to the one byte
\* of that value.
C23_HexFormatsEquivalent ==
    \A result \in parse_result : \A bytes \in hex_bytes : result = Ok(bytes)

\* three bytes written with 0x prefixes and two spaces between them have been parsed
C23_Witness ==
    /\ parse_result # {}
    /\ hex_bytes = {<<114, 15, 255>>}
    /\ hex_str = <<"0", "x", "7", "2", " ", " ", "0", "x", "0", "f", " ", " ",
                   "0", "x", "f", "f">>

\* the digits of a byte token: the token without the 0x it may start with
TokenDigits(token) ==
    IF Len(token) >= 2 /\ token[1] = "0" /\ token[2] = "x"
    THEN SubSeq(token, 3, Len(token))
    ELSE token

\* some byte token of the text holds a character that is no hexadecimal digit,
\* or has an odd number of digits greater than one
Malformed(str) ==
    \E i \in 1..Len(SplitWhitespace(str)) :
        LET digits == TokenDigits(SplitWhitespace(str)[i])
        IN \/ \E j \in 1..Len(digits) : HexCharValue(digits[j]) = -1
           \/ Len(digits) > 1 /\ Len(digits) % 2 = 1

\* C24: malformed hex patterns are rejected. parse_hex_string returns Err for
\* every text in which a byte token holds a character that is no hexadecimal
\* digit or has an odd number of digits greater than one.
C24_MalformedHexRejected ==
    \A result \in parse_result : Malformed(hex_str) => ~result.ok

\* C25: at every point of the scan the output location of a needle exists if and
\* only if a match of that needle has been processed (recorded, or its processing
\* ended the scan after the location was created); a creation failure happens only
\* at a needle's first match, never at a later match or for an existing location
C25_LazyIdempotentNeedleDir ==
    \A i \in NeedleIds :
        LET needle_dir_path == NeedleDirPath(needles[i])
            recorded == \E k \in Events : match_trace[k].needle_idx = i
            in_progress == pc = "panicked" /\ needle_idx = i
        IN /\ needle_dir_path \in needle_dirs
                 <=> \/ recorded
                     \/ in_progress /\ io_result \in {"open_err", "append_all_err",
                                                       "append_needle_err"}
           /\ in_progress /\ io_result = "create_dir_err" => ~recorded

\* a needle with two recorded matches, its location there, next to a needle
\* without a match and without a location
C25_Witness ==
    /\ Len(needles) = 2
    /\ \E k1, k2 \in Events : k1 < k2 /\ match_trace[k1].needle_idx = 1
                                        /\ match_trace[k2].needle_idx = 1
    /\ NeedleDirPath(needles[1]) \in needle_dirs
    /\ NeedleDirPath(needles[2]) \notin needle_dirs
    /\ pc = "read"

\* C26: in every emitted record haystack_written_to_file is true exactly when the
\* context file of that match was actually written; when it is true,
\* haystack_file_path and haystack_file_name are non-null and name the context
\* file (so they are not the path and name of the input file), and when it is
\* false both are null
C26_PersistenceFields ==
    \A k \in Events :
        LET record == needle_vals_found[k]
            actually_written ==
                \E f \in context_files :
                    f.path = match_trace[k].path /\ f.bytes = match_trace[k].bytes
                        /\ (f.complete \/ ~match_trace[k].written)
        IN /\ record.haystack_written_to_file
                 <=> match_trace[k].written /\ match_trace[k].write_ok
           /\ record.haystack_written_to_file
                 => /\ actually_written
                    /\ record.haystack_file_path \notin {NULL, "input_file_path"}
                    /\ record.haystack_file_name \notin {NULL, "input_file_name"}
           /\ ~record.haystack_written_to_file
                 => /\ record.haystack_file_path = NULL
                    /\ record.haystack_file_name = NULL

\* C27: for every match at in-buffer position p of a needle with pattern length L,
\* before-context B, after-context A and the persist flag set, the bytes written
\* are exactly buffer[max(0, p - B) .. min(|buffer|, p + L + A)), and
\* 0 <= start <= p < end <= |buffer|
C27_ContextWindowBounds ==
    [][Len(match_trace') > Len(match_trace) =>
          LET event == match_trace'[Len(match_trace')]
              needle == needles[event.needle_idx]
              buffer == haystack_chunk_buffer
              p == event.pos_in_chunk
              B == needle.byte_count_before_match
              A == needle.byte_count_after_match
              L == Len(needle.val)
              start == IF p - B > 0 THEN p - B ELSE 0
              end == IF p + L + A < Len(buffer) THEN p + L + A ELSE Len(buffer)
          IN event.written =>
                /\ 0 <= start /\ start <= p /\ p < end /\ end <= Len(buffer)
                /\ Len(event.bytes) = end - start
                /\ \A j \in 1..(end - start) : event.bytes[j] = buffer[start + j]
                /\ \E f \in context_files' :
                       f.path = event.path /\ f.bytes = event.bytes
                           /\ (f.complete <=> event.write_ok)]_vars

\* a context file of three bytes for a match at position 3 of a buffer of four
\* bytes: the window starts at 3 - B = 1 and is clipped at the buffer's end
C27_Witness ==
    \E k \in Events :
        /\ match_trace[k].written /\ match_trace[k].write_ok
        /\ match_trace[k].pos_in_chunk = 3
        /\ haystack_chunk_buffer_size_bytes = 4
        /\ Len(match_trace[k].bytes) = 3
        /\ \E f \in context_files :
               f.path = match_trace[k].path /\ f.bytes = match_trace[k].bytes /\ f.complete

\* C28: within one chunk the events are emitted in non-decreasing in-buffer start
\* offset, whatever the order of the needles in the needle set, and the
\* match_start_global_offset values of the records of the scan-wide log are
\* non-decreasing over the whole scan
C28_EmissionOrder ==
    /\ \A k1, k2 \in Events :
           k1 < k2 /\ match_trace[k1].chunk_count = match_trace[k2].chunk_count
               => match_trace[k1].pos_in_chunk <= match_trace[k2].pos_in_chunk
    /\ \A i, j \in 1..Len(all_output_record_jsonl) :
           i < j => all_output_record_jsonl[i].match_start_global_offset
                        <= all_output_record_jsonl[j].match_start_global_offset

\* C29: every loop iteration that processes a non-empty read increases chunk_count
\* by exactly 1 and total_haystack_bytes_read by the same amount (the length of
\* the chunk buffer, which is what an iteration adds for a skipped uniform chunk)
\* whether the matching pass ran or was skipped
C29_SkipIndependentCounters ==
    [][chunk_count' # chunk_count \/ total_haystack_bytes_read' # total_haystack_bytes_read
          => /\ chunk_count' = chunk_count + 1
             /\ total_haystack_bytes_read'
                    = total_haystack_bytes_read + Len(haystack_chunk_buffer)]_vars

\* C30: a needle whose happiness_level lies outside 0..9 never aborts a scan
\* that has started, and once its output directory has been created its
\* structured record is also appended to the scan-wide log
C30_OutOfRangeHappinessLevel ==
    \A i \in NeedleIds :
        needles[i].happiness_level \notin 0..9 =>
            /\ ~(pc = "panicked" /\ needle_idx = i /\ io_result = "log_panic")
            /\ NeedleDirPath(needles[i]) \in needle_dirs
                   => \E j \in 1..Len(all_output_record_jsonl) :
                          all_output_record_jsonl[j].name = needles[i].name

====
